---------------------------- MODULE Spec2Model ----------------------------
(***************************************************************************)
(* A model of brainglobe-template-builder: the napari widgets              *)
(* (mask_widget, points_widget, align_widget) and the io helpers           *)
(* (get_unique_folder_in_dir, save_3d_points_to_csv).                      *)
(*                                                                         *)
(* Every operation is a synchronous call.  A behaviour is one call: Init   *)
(* draws the arguments, the action runs the whole function body and        *)
(* stores its local variables and its return value (or the exception).     *)
(*                                                                         *)
(* Numbers.  Real vectors and matrices are exact rationals kept as         *)
(* integers over a common denominator: a record [num, den] stands for      *)
(* num/den, and a 4x4 homogeneous matrix H stands for H / H[4][4] (the     *)
(* last row of every matrix here is (0, 0, 0, H[4][4])).  Axes are in      *)
(* napari order (z, y, x) = tuple positions (1, 2, 3); voxel indices are   *)
(* 0-based as in numpy.                                                    *)
(***************************************************************************)
EXTENDS Integers, Sequences, FiniteSets, TLC

VARIABLES pc, op, args, locals, ret, fs

vars == <<pc, op, args, locals, ret, fs>>

None == [kind |-> "None"]

NoLocals == [kind |-> "None"]

(***************************************************************************)
(* Bounds of the model.                                                    *)
(***************************************************************************)
MaxZ == 2

MaxY == 3

MaxX == 4

\* the mask_widget images are one slice of MaskY x MaskX voxels
MaskY == 3

MaskX == 3

\* erosion_size ranges over 0..MaxErosion (the SpinBox allows 0..20)
MaxErosion == 2

\* points_widget is called with masks of shape <<1, PointsY, PointsX>>
PointsY == 2

PointsX == 10

\* get_unique_folder_in_dir searches a directory of at most MaxEntries entries
\* whose names have at most MaxNameLen characters
MaxEntries == 2

MaxNameLen == 2

\* save_3d_points_to_csv is called with at most MaxRows points
MaxRows == 2

(***************************************************************************)
(* The element of a singleton set.  The({F(x) : x \in {e}}) is F(e); it    *)
(* only fixes the order of evaluation: e is evaluated once, however often  *)
(* F uses it, and a function [x \in D |-> ...] is tabulated once instead   *)
(* of being recomputed at every application (the test r = r does that).    *)
(***************************************************************************)
The(S) == CHOOSE r \in S : r = r

(***************************************************************************)
(* Small integer helpers.                                                  *)
(***************************************************************************)
Abs(i) == IF i < 0 THEN -i ELSE i

SumSeq(s) ==
    LET f[k \in 0..Len(s)] == IF k = 0 THEN 0 ELSE s[k] + f[k - 1]
    IN  f[Len(s)]

Dot(u, v) == u[1] * v[1] + u[2] * v[2] + u[3] * v[3]

Cross(u, v) ==
    << u[2] * v[3] - u[3] * v[2],
       u[3] * v[1] - u[1] * v[3],
       u[1] * v[2] - u[2] * v[1] >>

Euclid[a \in Nat, b \in Nat] == IF b = 0 THEN a ELSE Euclid[b, a % b]

Gcd(a, b) == Euclid[Abs(a), Abs(b)]

Gcd3(v) == Euclid[Euclid[Abs(v[1]), Abs(v[2])], Abs(v[3])]

Gcd4(v) == Euclid[Euclid[Abs(v[1]), Abs(v[2])], Euclid[Abs(v[3]), Abs(v[4])]]

\* the integer L with L * L = v.v (defined for the vectors of integer length)
Norm(v) == CHOOSE L \in 0..(Abs(v[1]) + Abs(v[2]) + Abs(v[3])) : L * L = Dot(v, v)

(***************************************************************************)
(* 3x3 and 4x4 matrices as tuples of rows.                                 *)
(***************************************************************************)
Eye3 == << <<1, 0, 0>>, <<0, 1, 0>>, <<0, 0, 1>> >>

\* np.eye(4)
Eye4 == << <<1, 0, 0, 0>>, <<0, 1, 0, 0>>, <<0, 0, 1, 0>>, <<0, 0, 0, 1>> >>

MatMul3(A, B) ==
    [i \in 1..3 |-> [j \in 1..3 |->
        A[i][1] * B[1][j] + A[i][2] * B[2][j] + A[i][3] * B[3][j]]]

\* a homogeneous matrix in lowest terms (the same rational matrix)
Div4(H, g) == [i \in 1..4 |-> [j \in 1..4 |-> H[i][j] \div g]]

Reduce4(H) ==
    The({Div4(h, Gcd4(<<Gcd4(h[1]), Gcd4(h[2]), Gcd4(h[3]), Gcd4(h[4])>>)) : h \in {H}})

\* a rational 3x3 matrix [num, den] in lowest terms
Div3(M, g) ==
    [num |-> [i \in 1..3 |-> [j \in 1..3 |-> M.num[i][j] \div g]], den |-> M.den \div g]

Reduce3(M) ==
    The({Div3(m, Gcd4(<<m.den, Gcd3(m.num[1]), Gcd3(m.num[2]), Gcd3(m.num[3])>>)) : m \in {M}})

\* a rational vector [num, den] in lowest terms
DivVec(v, g) == [num |-> [i \in 1..3 |-> v.num[i] \div g], den |-> v.den \div g]

ReduceVec(v) == The({DivVec(w, Gcd(w.den, Gcd3(w.num))) : w \in {v}})

RowsByColumns4(A, B) ==
    [i \in 1..4 |-> [j \in 1..4 |->
        A[i][1] * B[1][j] + A[i][2] * B[2][j]
      + A[i][3] * B[3][j] + A[i][4] * B[4][j]]]

\* the operator @ on 4x4 arrays
MatMul4(A, B) == The({Reduce4(RowsByColumns4(a, b)) : a \in {A}, b \in {B}})

MatVec3(A, v) == [i \in 1..3 |-> A[i][1] * v[1] + A[i][2] * v[2] + A[i][3] * v[3]]

Scale3(k, A) == [i \in 1..3 |-> [j \in 1..3 |-> k * A[i][j]]]

Add3(A, B) == [i \in 1..3 |-> [j \in 1..3 |-> A[i][j] + B[i][j]]]

Transpose3(A) == [i \in 1..3 |-> [j \in 1..3 |-> A[j][i]]]

\* [v]x, the matrix of the cross product with v
Skew(v) == << <<0, -v[3], v[2]>>, <<v[3], 0, -v[1]>>, <<-v[2], v[1], 0>> >>

Det3(A) ==
      A[1][1] * (A[2][2] * A[3][3] - A[2][3] * A[3][2])
    - A[1][2] * (A[2][1] * A[3][3] - A[2][3] * A[3][1])
    + A[1][3] * (A[2][1] * A[3][2] - A[2][2] * A[3][1])

\* adjugate: Adj3(A) * A = Det3(A) * I
Adj3(A) ==
    LET r(i) == IF i = 3 THEN 1 ELSE i + 1
        s(i) == IF i = 1 THEN 3 ELSE i - 1
    IN  [i \in 1..3 |-> [j \in 1..3 |->
            A[r(j)][r(i)] * A[s(j)][s(i)] - A[r(j)][s(i)] * A[s(j)][r(i)]]]

\* top-left 3x3 block and last column of a homogeneous matrix
Block3(H) == [i \in 1..3 |-> [j \in 1..3 |-> H[i][j]]]

Col4(H) == [i \in 1..3 |-> H[i][4]]

\* the homogeneous matrix [[A, t], [0, d]], standing for x |-> (A x + t) / d
Homogeneous(A, t, d) ==
    [i \in 1..4 |-> [j \in 1..4 |->
        IF i <= 3 /\ j <= 3 THEN A[i][j]
        ELSE IF i <= 3 THEN t[i]
        ELSE IF j <= 3 THEN 0 ELSE d]]

\* np.linalg.inv of an affine matrix: (H/d)^-1 = [[d adj(A), -adj(A) t], [0, det A]] / det A
InvAffine(t, d, adj, det, sg) ==
    The({Homogeneous(Scale3(sg * d, adj), [i \in 1..3 |-> -sg * at[i]], sg * det) :
            at \in {MatVec3(adj, t)}})

Inv4(H) ==
    The({Reduce4(InvAffine(Col4(H), H[4][4], adj, det, IF det < 0 THEN -1 ELSE 1)) :
            adj \in {Adj3(Block3(H))}, det \in {Det3(Block3(H))}})


(***************************************************************************)
(* Volumes.  A volume is [shape, data]: data maps every index triple of    *)
(* the shape to an intensity.                                              *)
(***************************************************************************)
Idx(shape) == (0..(shape[1] - 1)) \X (0..(shape[2] - 1)) \X (0..(shape[3] - 1))

(***************************************************************************)
(* brainglobe_template_builder.utils.fit_plane_to_points (PlaneFitter):    *)
(* the unit normal of the plane through the points, the direction of       *)
(* least variance.  For points lying exactly on a plane that is the        *)
(* direction orthogonal to every centred point; it is looked for among     *)
(* the directions of integer length, and its sign is fixed by making the   *)
(* dominant component non-negative.  Result: [num, den] with num/den of    *)
(* unit length.                                                            *)
(***************************************************************************)
Directions ==
    { <<0, 0, 1>>, <<0, 1, 0>>, <<1, 0, 0>>,
      <<0, 3, 4>>, <<0, -3, 4>>, <<3, 0, 4>>, <<-3, 0, 4>>,
      <<0, 4, 3>>, <<4, 0, 3>>, <<3, 4, 0>>, <<1, 2, 2>> }

SumPoints(pts) == [i \in 1..3 |-> SumSeq([k \in 1..Len(pts) |-> pts[k][i]])]

\* N * (p - mean(pts))
Centred(pts, p) == [i \in 1..3 |-> Len(pts) * p[i] - SumPoints(pts)[i]]

Planar(pts, n) == \A k \in 1..Len(pts) : Dot(n, Centred(pts, pts[k])) = 0

fit_plane_to_points(pts) ==
    LET n == CHOOSE d \in Directions : Planar(pts, d)
    IN  [num |-> n, den |-> Norm(n)]

(***************************************************************************)
(* brainglobe_template_builder.utils.align_vectors (VectorAligner): the    *)
(* minimal rotation R with R s = t, by Rodrigues' formula                  *)
(*     R = I + [v]x + [v]x^2 / (1 + c),  v = s x t,  c = s . t             *)
(* for unit s, t.  With s = ns / Ls, t = nt / Lt, P = Ls Lt, q = ns . nt   *)
(* and K = [ns x nt]x this is  P (P + q) R = P (P + q) I + (P + q) K + K^2.*)
(* Parallel vectors give the identity; anti-parallel vectors a half turn   *)
(* about an axis a orthogonal to s:  (a . a) R = 2 a a^T - (a . a) I.      *)
(***************************************************************************)
OrthogonalTo(s) ==
    IF Cross(<<1, 0, 0>>, s) # <<0, 0, 0>> THEN Cross(<<1, 0, 0>>, s)
    ELSE Cross(<<0, 1, 0>>, s)

align_vectors(s, t) ==
    LET v == Cross(s.num, t.num)
        P == s.den * t.den
        q == Dot(s.num, t.num)
        K == Skew(v)
        a == OrthogonalTo(s.num)
    IN  IF v = <<0, 0, 0>> /\ q > 0 THEN [num |-> Eye3, den |-> 1]
        ELSE IF v = <<0, 0, 0>>
        THEN Reduce3([num |-> [i \in 1..3 |-> [j \in 1..3 |->
                                2 * a[i] * a[j] - (IF i = j THEN Dot(a, a) ELSE 0)]],
                      den |-> Dot(a, a)])
        ELSE Reduce3([num |-> Add3(Scale3(P * (P + q), Eye3),
                                   Add3(Scale3(P + q, K), MatMul3(K, K))),
                      den |-> P * (P + q)])

(***************************************************************************)
(* scipy.ndimage.affine_transform(data, matrix, offset=offset) with its    *)
(* defaults (output shape = input shape, mode = "constant", cval = 0):     *)
(* output voxel p is the input's value at matrix p + offset.  A position   *)
(* outside the input's index range gives cval; a position on a voxel       *)
(* centre gives that voxel's intensity (the spline interpolates its        *)
(* knots); the intensity between voxel centres is the spline's blend of    *)
(* the neighbours, which the model does not compute: it is OffGrid.        *)
(***************************************************************************)
OffGrid == -1

\* matrix p + offset
SamplePos(matrix, offset, p) ==
    LET mp == MatVec3(matrix.num, p)
    IN  [num |-> [i \in 1..3 |-> offset.den * mp[i] + matrix.den * offset.num[i]],
         den |-> matrix.den * offset.den]

InBounds(shape, pos) ==
    \A i \in 1..3 : 0 <= pos.num[i] /\ pos.num[i] <= (shape[i] - 1) * pos.den

OnGrid(pos) == \A i \in 1..3 : pos.num[i] % pos.den = 0

GridPoint(pos) == [i \in 1..3 |-> pos.num[i] \div pos.den]

\* as ValueAt with mode = "nearest": a position outside reads the nearest edge voxel
ValueAtNearestEdge(vol, pos) ==
    LET clamp(i) == IF pos.num[i] < 0 THEN 0
                    ELSE IF pos.num[i] > (vol.shape[i] - 1) * pos.den THEN vol.shape[i] - 1
                    ELSE pos.num[i] \div pos.den
    IN  IF ~InBounds(vol.shape, pos) THEN vol.data[<<clamp(1), clamp(2), clamp(3)>>]
        ELSE IF OnGrid(pos) THEN vol.data[GridPoint(pos)]
        ELSE OffGrid

ValueAt(vol, pos) ==
    IF ~InBounds(vol.shape, pos) THEN 0
    ELSE IF OnGrid(pos) THEN vol.data[GridPoint(pos)]
    ELSE OffGrid

affine_transform(vol, matrix, offset) ==
    [shape |-> vol.shape,
     data  |-> [p \in Idx(vol.shape) |-> ValueAt(vol, SamplePos(matrix, offset, p))]]

(***************************************************************************)
(* align_widget(image, points)                                             *)
(***************************************************************************)
\* np.mean(points_data, axis=0)
Mean(pts) == ReduceVec([num |-> SumPoints(pts), den |-> Len(pts)])

\* np.eye(4) with [:3, 3] = -centroid
TranslateToOrigin(centroid) ==
    Homogeneous(Scale3(centroid.den, Eye3),
                [i \in 1..3 |-> -centroid.num[i]], centroid.den)

\* np.eye(4) with [:3, :3] = rotation_matrix
Rotation(rotation_matrix) ==
    Homogeneous(rotation_matrix.num, <<0, 0, 0>>, rotation_matrix.den)

\* np.eye(4) with [2, 3] = mid_x - centroid[2], mid_x = image.data.shape[2] // 2
TranslateToMidX(shape, centroid) ==
    LET mid_x == shape[3] \div 2
    IN  Homogeneous(Scale3(centroid.den, Eye3),
                    <<0, 0, mid_x * centroid.den - centroid.num[3]>>, centroid.den)

\* as ComposeTransform with the mid-slice translation applied last instead of first
ComposeTransformMidLast(translate_to_origin, rotation, translate_to_mid_x) ==
    MatMul4(MatMul4(MatMul4(translate_to_mid_x, Inv4(translate_to_origin)), rotation),
            translate_to_origin)

\* inv(translate_to_origin) @ rotation @ translate_to_origin @ translate_to_mid_x
ComposeTransform(translate_to_origin, rotation, translate_to_mid_x) ==
    MatMul4(MatMul4(MatMul4(Inv4(translate_to_origin), rotation),
                    translate_to_origin), translate_to_mid_x)

AlignLocals(image, points) ==
    LET centroid == Mean(points)
        normal_vector == fit_plane_to_points(points)
        x_axis == [num |-> <<0, 0, 1>>, den |-> 1]
        rotation_matrix == align_vectors(normal_vector, x_axis)
        transform == ComposeTransform(TranslateToOrigin(centroid),
                                      Rotation(rotation_matrix),
                                      TranslateToMidX(image.shape, centroid))
    IN  [centroid        |-> centroid,
         normal_vector   |-> normal_vector,
         rotation_matrix |-> rotation_matrix,
         transform       |-> transform,
         affine_matrix   |-> [num |-> Block3(transform), den |-> transform[4][4]],
         offset          |-> [num |-> Col4(transform), den |-> transform[4][4]]]

align_widget ==
    /\ pc = "call"
    /\ op = "align_widget"
    /\ locals' = AlignLocals(args.image, args.points)
    /\ ret' = [data |-> affine_transform(args.image, locals'.affine_matrix,
                                         locals'.offset),
               name |-> "aligned image",
               type |-> "image"]
    /\ pc' = "done"
    /\ UNCHANGED <<op, args, fs>>

(***************************************************************************)
(* Arguments of align_widget: an image of any shape up to max,             *)
(* every voxel carrying its own intensity (1 + its raster position), and   *)
(* midline points lying on a plane: three or four points around an         *)
(* voxel c of the image, spanned by two in-plane directions of the normal.  *)
(***************************************************************************)
Shapes(max) == (1..max[1]) \X (1..max[2]) \X (1..max[3])

Raster(shape, p) == 1 + p[3] + shape[3] * (p[2] + shape[2] * p[1])

LabelledImage(shape) == [shape |-> shape, data |-> [p \in Idx(shape) |-> Raster(shape, p)]]

InPlane(n) ==
    LET u == IF Cross(n, <<1, 0, 0>>) # <<0, 0, 0>> THEN Cross(n, <<1, 0, 0>>)
             ELSE Cross(n, <<0, 1, 0>>)
    IN  <<u, Cross(n, u)>>

Plus(c, u, k) == [i \in 1..3 |-> c[i] + k * u[i]]

PlanePoints(c, n, count) ==
    LET u == InPlane(n)[1]
        w == InPlane(n)[2]
    IN  IF count = 4
        THEN <<Plus(c, u, 1), Plus(c, w, 1), Plus(c, u, -1), Plus(c, w, -1)>>
        ELSE <<Plus(c, u, 1), Plus(c, w, 1), Plus(c, u, -1)>>

AlignArgs(max) ==
    UNION { { [image |-> LabelledImage(sh), points |-> PlanePoints(c, n, k)] :
                c \in Idx(sh), n \in Directions, k \in {3, 4} } :
            sh \in Shapes(max) }

InitAlign ==
    /\ pc = "call"
    /\ op = "align_widget"
    /\ args \in AlignArgs(<<MaxZ, MaxY, MaxX>>)
    /\ locals = NoLocals
    /\ ret = None
    /\ fs = <<>>

NextAlign == align_widget

SpecAlign == InitAlign /\ [][NextAlign]_vars

(***************************************************************************)
(* Claims about align_widget.                                              *)
(***************************************************************************)
AlignDone == pc = "done" /\ op = "align_widget"

MidX == args.image.shape[3] \div 2

\* numerators, over locals.centroid.den, of the translation to the mid slice
MidShift == <<0, 0, MidX * locals.centroid.den - locals.centroid.num[3]>>

\* C1: the linear part and the offset handed to the resampler are those of
\* inv(T_to_origin) . R . T_to_origin . T_to_mid in that order, i.e. of the map
\* p |-> c + R (p + m - c): first the shift m along x to the mid slice, then the
\* rotation R about the centroid c.  So linear = R and offset = c + R (m - c).
C1_TransformIsOrderedProduct ==
    AlignDone =>
        LET c == locals.centroid
            R == locals.rotation_matrix
            A == locals.affine_matrix
            b == locals.offset
            Rmc == MatVec3(R.num, [i \in 1..3 |-> MidShift[i] - c.num[i]])
        IN  /\ A.den > 0 /\ b.den > 0
            /\ \A i, j \in 1..3 : A.num[i][j] * R.den = R.num[i][j] * A.den
            /\ \A i \in 1..3 :
                   b.num[i] * R.den * c.den = b.den * (R.den * c.num[i] + Rmc[i])

\* a call whose rotation is not the identity, whose centroid is off the mid slice
\* and off the origin, and where the shift is not along the rotation axis
C1_Witness ==
    /\ AlignDone
    /\ locals.rotation_matrix.num # Scale3(locals.rotation_matrix.den, Eye3)
    /\ MidShift[3] # 0
    /\ locals.centroid.num # <<0, 0, 0>>
    /\ MatVec3(locals.rotation_matrix.num, MidShift)
         # [i \in 1..3 |-> locals.rotation_matrix.den * MidShift[i]]

CentroidOnVoxel ==
    /\ locals.centroid.den = 1
    /\ locals.centroid.num \in Idx(args.image.shape)

\* C2: the input content at the plane centroid appears in the output at index
\* floor(shape[x] / 2) along the canonical axis
C2_PlaneAtMidSlice ==
    (AlignDone /\ CentroidOnVoxel) =>
        \E p \in Idx(args.image.shape) :
            /\ p[3] = MidX
            /\ ret.data.data[p] = args.image.data[locals.centroid.num]

\* The planar feature of the input is { q : n . (q - c) = 0 } with n the fitted
\* normal.  Output voxel p shows the input at A p + b, so the feature appears in
\* the output at { p : n . (A p + b - c) = 0 }: a plane with normal A^T n.
OutputFeatureNormal ==
    MatVec3(Transpose3(locals.affine_matrix.num), locals.normal_vector.num)

\* C3: after resampling, the feature's plane has its normal along the canonical
\* (x) axis
C3_FeatureNormalOnCanonicalAxis ==
    AlignDone =>
        /\ OutputFeatureNormal[1] = 0
        /\ OutputFeatureNormal[2] = 0
        /\ OutputFeatureNormal[3] # 0

\* the position linear p + offset, recomputed from the locals: numerators over
\* affine_matrix.den * offset.den
C4_Position(p) ==
    [i \in 1..3 |->
        locals.offset.den * ( locals.affine_matrix.num[i][1] * p[1]
                            + locals.affine_matrix.num[i][2] * p[2]
                            + locals.affine_matrix.num[i][3] * p[3] )
      + locals.affine_matrix.den * locals.offset.num[i]]

C4_OutputVoxels ==
    AlignDone =>
        LET shape == args.image.shape
            den == locals.affine_matrix.den * locals.offset.den
        IN  /\ ret.data.shape = shape
            /\ DOMAIN ret.data.data = Idx(shape)
            /\ \A p \in Idx(shape) :
                 /\ (\E i \in 1..3 : \/ C4_Position(p)[i] < 0
                                     \/ C4_Position(p)[i] > (shape[i] - 1) * den)
                        => ret.data.data[p] = 0
                 /\ \A q \in Idx(shape) :
                        (\A i \in 1..3 : C4_Position(p)[i] = q[i] * den)
                            => ret.data.data[p] = args.image.data[q]

\* C4: the resampled volume has the input's shape, every output voxel p holds the
\* input's value at linear p + offset, or 0 where that position is outside the
\* input, and the call leaves the image and the points as they were
C4_ResampleContract == [](C4_OutputVoxels) /\ [][args' = args]_vars

\* a call that reads a voxel other than p for some p, and fills another with 0
C4_Witness ==
    /\ AlignDone
    /\ \E p \in Idx(args.image.shape) : ret.data.data[p] = 0
    /\ \E p \in Idx(args.image.shape) :
           /\ ret.data.data[p] > 0
           /\ ret.data.data[p] # args.image.data[p]

(***************************************************************************)
(* mask_widget(image, gauss_sigma, threshold_method, erosion_size)         *)
(*                                                                         *)
(* Boolean arrays are functions from Idx(shape) to BOOLEAN.                *)
(***************************************************************************)
TrueSet(m) == {p \in DOMAIN m : m[p]}

AsMask(shape, S) == [p \in Idx(shape) |-> p \in S]

(***************************************************************************)
(* skimage.filters.gaussian(data, sigma): a separable, normalised kernel   *)
(* of standard deviation sigma along every axis, the edge voxel repeated   *)
(* beyond the border (mode = "nearest").  The kernel is the binomial one   *)
(* of the same variance: 2 sigma^2 passes of (1, 2, 1) / 4.  Intensities   *)
(* stay integers: one pass along one axis multiplies the scale by 4.       *)
(***************************************************************************)
Clamp(i, n) == IF i < 0 THEN 0 ELSE IF i > n - 1 THEN n - 1 ELSE i

Shifted(shape, p, axis, k) ==
    [i \in 1..3 |-> IF i = axis THEN Clamp(p[i] + k, shape[i]) ELSE p[i]]

BlurPass(shape, data, axis) ==
    The({[p \in Idx(shape) |->
              d[Shifted(shape, p, axis, -1)] + 2 * d[p] + d[Shifted(shape, p, axis, 1)]] :
          d \in {data}})

RECURSIVE BlurAxis(_, _, _, _)
BlurAxis(shape, data, axis, passes) ==
    IF passes = 0 THEN data
    ELSE The({BlurAxis(shape, d, axis, passes - 1) : d \in {BlurPass(shape, data, axis)}})

gaussian(shape, data, sigma) ==
    BlurAxis(shape, BlurAxis(shape, BlurAxis(shape, data, 1, 2 * sigma * sigma),
                             2, 2 * sigma * sigma), 3, 2 * sigma * sigma)

(***************************************************************************)
(* brainglobe_template_builder.utils.threshold_image (Thresholder): one    *)
(* global threshold from the histogram, by the selected method; output     *)
(* voxel > threshold.  The three methods are not computed: a threshold     *)
(* derived from the histogram lies within the range of the intensities,    *)
(* and every such threshold cuts the volume like one of the intensities    *)
(* present, so the threshold is any of those.                              *)
(***************************************************************************)
Methods == {"triangle", "otsu", "isodata"}

Thresholds(data) == {data[p] : p \in DOMAIN data}

threshold_image(data, threshold) ==
    The({[p \in DOMAIN d |-> d[p] > threshold] : d \in {data}})

(***************************************************************************)
(* brainglobe_template_builder.utils.extract_largest_object                *)
(* (ComponentSelector): the largest connected component under full         *)
(* (face + edge + corner) connectivity; of several largest ones the first  *)
(* in scan order.  Defined for a mask with foreground; an empty mask is    *)
(* the error EmptyMask.                                                    *)
(***************************************************************************)
\* position in the scan (raster) order
Scan(shape, p) == p[3] + shape[3] * (p[2] + shape[2] * p[1])

FirstIn(shape, S) == CHOOSE p \in S : \A q \in S : Scan(shape, p) <= Scan(shape, q)

Adjacent(p, q) == p # q /\ \A i \in 1..3 : Abs(p[i] - q[i]) <= 1

Frontier(S, C) == {q \in S \ C : \E p \in C : Adjacent(p, q)}

RECURSIVE Grow(_, _)
Grow(S, C) ==
    The({IF N = {} THEN C ELSE The({Grow(S, c) : c \in {C \cup N}}) : N \in {Frontier(S, C)}})

Component(S, v) == Grow(S, {v})

LargestOf(comps) == {C \in comps : \A D \in comps : Cardinality(D) <= Cardinality(C)}

FirstOf(shape, comps) ==
    CHOOSE C \in comps :
        \A D \in comps : Scan(shape, FirstIn(shape, C)) <= Scan(shape, FirstIn(shape, D))

extract_largest_object(shape, binary) ==
    The({AsMask(shape, FirstOf(shape, largest)) :
            largest \in {The({LargestOf(comps) :
                            comps \in {The({{Component(S, v) : v \in S} :
                                              S \in {TrueSet(binary)}})}})}})

(***************************************************************************)
(* skimage.morphology.binary_erosion(mask, footprint=np.ones((size,)*3)):  *)
(* scipy's binary erosion with the footprint's centre at index size // 2   *)
(* and the voxels beyond the border taken as True (border_value = True).   *)
(***************************************************************************)
FootprintOffsets(size) == {j - (size \div 2) : j \in 0..(size - 1)}

UnderFootprint(p, q, size) == \A i \in 1..3 : (q[i] - p[i]) \in FootprintOffsets(size)

\* as binary_erosion with border_value = False: the border erodes the mask
binary_erosion_border_false(shape, mask, size) ==
    [p \in Idx(shape) |->
        /\ \A q \in Idx(shape) : UnderFootprint(p, q, size) => mask[q]
        /\ \A i \in 1..3 : \A o \in FootprintOffsets(size) :
               0 <= p[i] + o /\ p[i] + o <= shape[i] - 1]

binary_erosion(shape, mask, size) ==
    [p \in Idx(shape) |-> \A q \in Idx(shape) : UnderFootprint(p, q, size) => mask[q]]

\* as SmoothStage with the smoothing left out
SmoothStageSkipped(shape, data, gauss_sigma) == data

\* lines 87-90
SmoothStage(shape, data, gauss_sigma) ==
    IF gauss_sigma > 0 THEN gaussian(shape, data, gauss_sigma) ELSE data

\* as ErodeStage eroding always, with a footprint of side 3 when erosion_size is 0
ErodeStageNoSkip(shape, mask, erosion_size) ==
    binary_erosion(shape, mask, IF erosion_size > 0 THEN erosion_size ELSE 3)

\* lines 99-102
ErodeStage(shape, mask, erosion_size) ==
    IF erosion_size > 0 THEN binary_erosion(shape, mask, erosion_size) ELSE mask

mask_widget ==
    /\ pc = "call"
    /\ op = "mask_widget"
    /\ IF args.image = None
       THEN \* "Please select an image layer"
            /\ ret' = None
            /\ UNCHANGED locals
       ELSE \E data_smoothed \in {SmoothStage(args.image.shape, args.image.data,
                                              args.gauss_sigma)} :
            \E threshold \in Thresholds(data_smoothed) :
            \E binary \in {threshold_image(data_smoothed, threshold)} :
                IF TrueSet(binary) = {}
                THEN \* extract_largest_object fails on a mask without foreground
                     /\ ret' = [exception |-> "EmptyMask"]
                     /\ locals' = [data_smoothed |-> data_smoothed, binary |-> binary]
                ELSE \E largest \in {extract_largest_object(args.image.shape, binary)} :
                     \E mask \in {ErodeStage(args.image.shape, largest,
                                             args.erosion_size)} :
                         /\ ret' = [data |-> [shape |-> args.image.shape, data |-> mask],
                                    name |-> "mask",
                                    type |-> "labels"]
                         /\ locals' = [data_smoothed |-> data_smoothed,
                                       binary |-> binary,
                                       largest |-> largest,
                                       mask |-> mask]
    /\ pc' = "done"
    /\ UNCHANGED <<op, args, fs>>

(***************************************************************************)
(* Arguments of mask_widget: no image, or a one-slice image with a dark    *)
(* background (0), a bright box (2) and the last voxel dark (0), dim (1)   *)
(* or bright (2).                                                          *)
(***************************************************************************)
MaskShape == <<1, MaskY, MaskX>>

Boxes(shape) ==
    { b \in { [lo |-> <<0, y1, x1>>, hi |-> <<0, y2, x2>>] :
                y1 \in 0..(shape[2] - 1), y2 \in 0..(shape[2] - 1),
                x1 \in 0..(shape[3] - 1), x2 \in 0..(shape[3] - 1) } :
        b.lo[2] <= b.hi[2] /\ b.lo[3] <= b.hi[3] }

InBox(b, p) == \A i \in 1..3 : b.lo[i] <= p[i] /\ p[i] <= b.hi[i]

Speck(shape) == <<0, shape[2] - 1, shape[3] - 1>>

BoxImage(shape, b, level) ==
    [shape |-> shape,
     data  |-> [p \in Idx(shape) |->
                    IF InBox(b, p) THEN 2 ELSE IF p = Speck(shape) THEN level ELSE 0]]

MaskImages(shape) == { BoxImage(shape, b, level) : b \in Boxes(shape), level \in {0, 1, 2} }

MaskArgs(shape) ==
    { [image |-> im, gauss_sigma |-> sg, threshold_method |-> mt, erosion_size |-> er] :
        im \in MaskImages(shape) \cup {None}, sg \in {0, 1}, mt \in Methods,
        er \in 0..MaxErosion }

InitMask ==
    /\ pc = "call"
    /\ op = "mask_widget"
    /\ args \in MaskArgs(MaskShape)
    /\ locals = NoLocals
    /\ ret = None
    /\ fs = <<>>

NextMask == mask_widget

SpecMask == InitMask /\ [][NextMask]_vars

MaskDone == pc = "done" /\ op = "mask_widget"

\* the call returned a Labels layer
MaskReturned == MaskDone /\ ret # None /\ "name" \in DOMAIN ret

Chebyshev(p, q) ==
    CHOOSE d \in 0..(MaskY + MaskX) :
        /\ \A i \in 1..3 : Abs(p[i] - q[i]) <= d
        /\ \E i \in 1..3 : Abs(p[i] - q[i]) = d

\* C5 as stated: for an erosion radius r > 0 an output voxel is true iff every
\* input voxel within Chebyshev distance r of it (a cube of side 2r + 1) is true
C5_CubeOfSideTwoRPlusOne ==
    (MaskReturned /\ args.erosion_size > 0) =>
        \A p \in Idx(args.image.shape) :
            ret.data.data[p] <=>
                \A q \in Idx(args.image.shape) :
                    Chebyshev(p, q) <= args.erosion_size => locals.largest[q]

\* C5 amended: for erosion_size s > 0 the footprint is a cube of side s (not
\* 2s + 1) that reaches s \div 2 voxels before the voxel and s - 1 - s \div 2
\* after it on every axis, and an output voxel is true iff every voxel of the
\* volume under the footprint is true
C5_CubeOfSideErosionSize ==
    (MaskReturned /\ args.erosion_size > 0) =>
        \A p \in Idx(args.image.shape) :
            ret.data.data[p] <=>
                \A q \in Idx(args.image.shape) :
                    (\A i \in 1..3 :
                        /\ p[i] - (args.erosion_size \div 2) <= q[i]
                        /\ q[i] <= p[i] + (args.erosion_size - 1)
                                        - (args.erosion_size \div 2))
                        => locals.largest[q]

\* an erosion that removes voxels, of an object that touches the border and
\* keeps a voxel there
C5_Witness ==
    /\ MaskReturned
    /\ args.erosion_size > 1
    /\ TrueSet(ret.data.data) # TrueSet(locals.largest)
    /\ \E p \in TrueSet(ret.data.data) : p[2] = 0 \/ p[3] = 0

\* C6: with erosion_size = 0 the returned mask is, voxel for voxel, the output
\* of the largest-component stage
C6_ZeroErosionIsIdentity ==
    (MaskReturned /\ args.erosion_size = 0) =>
        /\ DOMAIN ret.data.data = Idx(args.image.shape)
        /\ \A p \in Idx(args.image.shape) : ret.data.data[p] = locals.largest[p]

\* a call without erosion, on an object that an erosion would have changed
C6_Witness ==
    /\ MaskReturned
    /\ args.erosion_size = 0
    /\ TrueSet(ret.data.data) # {}
    /\ TrueSet(binary_erosion(args.image.shape, locals.largest, 3))
           # TrueSet(locals.largest)

\* the voxels of S that a chain of adjacent voxels of S links to v
Linked(S, v) == Grow(S, {v})

\* C is one of the largest connected components of S
LargestComponent(S, C) ==
    /\ C # {}
    /\ C \subseteq S
    /\ \E v \in C : Linked(C, v) = C
    /\ \A v \in S \ C :
           /\ \A w \in C : ~Adjacent(v, w)
           /\ Cardinality(Linked(S, v)) <= Cardinality(C)

\* C7: the returned mask is the erosion (skipped for erosion_size = 0) of the
\* largest component of the thresholded volume, and the thresholded volume is
\* voxel > threshold on the smoothed volume for gauss_sigma > 0 and on the
\* original volume for gauss_sigma = 0
C7_StagesInOrder ==
    MaskReturned =>
        /\ locals.data_smoothed =
               IF args.gauss_sigma > 0
               THEN gaussian(args.image.shape, args.image.data, args.gauss_sigma)
               ELSE args.image.data
        /\ \E t \in Thresholds(locals.data_smoothed) :
               \A p \in Idx(args.image.shape) :
                   locals.binary[p] <=> (locals.data_smoothed[p] > t)
        /\ LargestComponent(TrueSet(locals.binary), TrueSet(locals.largest))
        /\ ret.data.data =
               IF args.erosion_size > 0
               THEN binary_erosion(args.image.shape, locals.largest, args.erosion_size)
               ELSE locals.largest

\* a call in which every stage changed its input: the smoothed volume is cut
\* as no threshold cuts the original, the thresholded volume has more than one
\* component, and the erosion removes voxels without removing all
C7_Witness ==
    /\ MaskReturned
    /\ args.gauss_sigma > 0
    /\ \A t \in Thresholds(args.image.data) :
           locals.binary # threshold_image(args.image.data, t)
    /\ TrueSet(locals.largest) # TrueSet(locals.binary)
    /\ TrueSet(ret.data.data) # TrueSet(locals.largest)
    /\ TrueSet(ret.data.data) # {}

(***************************************************************************)
(* points_widget(mask)                                                     *)
(*                                                                         *)
(* A point array is a sequence of points, each point three rationals with  *)
(* a common denominator, in lowest terms.                                  *)
(***************************************************************************)
NumSlabs == 9

\* np.arange(start, stop)
arange(start, stop) == [k \in 1..(stop - start) |-> start + (k - 1)]

\* sum of the i-th coordinate over the voxels of S, a set of voxels of an
\* axis of length n
CoordSum(S, i, n) ==
    SumSeq([k \in 1..n |-> (k - 1) * Cardinality({p \in S : p[i] = k - 1})])

Lowest(S, i) == CHOOSE a \in {p[i] : p \in S} : \A p \in S : a <= p[i]

Highest(S, i) == CHOOSE a \in {p[i] : p \in S} : \A p \in S : p[i] <= a

Extent(S, i) == Highest(S, i) - Lowest(S, i) + 1

LongestAxis(S) ==
    CHOOSE i \in 1..3 :
        /\ \A j \in 1..3 : Extent(S, j) <= Extent(S, i)
        /\ \A j \in 1..(i - 1) : Extent(S, j) < Extent(S, i)

\* the k-th of NumSlabs approximately equal parts of the extent along the axis
Slab(S, axis, k) ==
    {p \in S :
        /\ Lowest(S, axis) + (((k - 1) * Extent(S, axis)) \div NumSlabs) <= p[axis]
        /\ p[axis] < Lowest(S, axis) + ((k * Extent(S, axis)) \div NumSlabs)}

\* the centroid of the slab's voxels, moved onto the slab's central cross-section
SlabPoint(shape, slab, axis) ==
    ReduceVec([num |-> [i \in 1..3 |->
                           IF i = axis
                           THEN (Lowest(slab, axis) + Highest(slab, axis))
                                    * Cardinality(slab)
                           ELSE 2 * CoordSum(slab, i, shape[i])],
               den |-> 2 * Cardinality(slab)])

(***************************************************************************)
(* brainglobe_template_builder.utils.get_midline_points (MidlineEstimator) *)
(* the object's extent along its longest axis in NumSlabs slabs, one point *)
(* per slab, from one end of the axis to the other; the error              *)
(* InsufficientForeground when a slab has no foreground.  The result is    *)
(* [points |-> the array] or [exception |-> the error].                    *)
(***************************************************************************)
get_midline_points(shape, mask) ==
    The({IF S = {} THEN [exception |-> "InsufficientForeground"]
         ELSE The({IF \E k \in 1..NumSlabs : Slab(S, axis, k) = {}
                   THEN [exception |-> "InsufficientForeground"]
                   ELSE [points |->
                            [k \in 1..NumSlabs |->
                                The({SlabPoint(shape, slab, axis) :
                                        slab \in {Slab(S, axis, k)}})]] :
                   axis \in {LongestAxis(S)}}) :
         S \in {TrueSet(mask)}})

\* as PointLabels with np.arange(0, points.shape[0])
PointLabelsFromZero(points) == arange(0, Len(points))

\* line 130
PointLabels(points) == arange(1, Len(points) + 1)

points_widget ==
    /\ pc = "call"
    /\ op = "points_widget"
    /\ \E estimate \in {get_midline_points(args.mask.shape, args.mask.data)} :
          IF "exception" \in DOMAIN estimate
          THEN /\ ret' = estimate
               /\ UNCHANGED <<locals, args>>
          ELSE \E points \in {estimate.points} :
               /\ locals' = [points |-> points, point_labels |-> PointLabels(points)]
               /\ args' = [args EXCEPT !.mask.visible = FALSE]
               /\ ret' = [data |-> points,
                          properties |-> [label |-> PointLabels(points)],
                          ndim |-> 3,
                          name |-> "midline points",
                          type |-> "points"]
    /\ pc' = "done"
    /\ UNCHANGED <<op, fs>>

(***************************************************************************)
(* Arguments of points_widget: a visible Labels layer holding no object,   *)
(* a box, or a box with one voxel taken out that is still one object.      *)
(***************************************************************************)
PointsShape == <<1, PointsY, PointsX>>

Objects(shape) ==
    { S \in { {p \in Idx(shape) : InBox(b, p)} \ hole :
                b \in Boxes(shape), hole \in {{}} \cup {{h} : h \in Idx(shape)} } :
        S = {} \/ Component(S, FirstIn(shape, S)) = S }

PointsArgs(shape) ==
    { [mask |-> [shape |-> shape, data |-> AsMask(shape, S), visible |-> TRUE]] :
        S \in Objects(shape) \cup {{}} }

InitPoints ==
    /\ pc = "call"
    /\ op = "points_widget"
    /\ args \in PointsArgs(PointsShape)
    /\ locals = NoLocals
    /\ ret = None
    /\ fs = <<>>

NextPoints == points_widget

SpecPoints == InitPoints /\ [][NextPoints]_vars

PointsDone == pc = "done" /\ op = "points_widget"

PointsReturned == PointsDone /\ "name" \in DOMAIN ret

\* C8: the returned points are the estimator's points in the estimator's order,
\* and the i-th of the N points (counted from 1) has label i
C8_OrderKeptLabelsByPosition ==
    PointsReturned =>
        /\ ret.data = get_midline_points(args.mask.shape, args.mask.data).points
        /\ Len(ret.properties.label) = Len(ret.data)
        /\ \A i \in 1..Len(ret.data) : ret.properties.label[i] = i

\* a call that returned NumSlabs points, no two of them equal
C8_Witness ==
    /\ PointsReturned
    /\ Len(ret.data) = NumSlabs
    /\ \A i, j \in 1..NumSlabs : i # j => ret.data[i] # ret.data[j]
    /\ \E i \in 1..NumSlabs : ret.data[i].den > 1

(***************************************************************************)
(* io.py.  A string is a sequence of characters.  fs is the content of     *)
(* one existing directory: a function from the names of its entries to     *)
(* [kind |-> "dir"] or [kind |-> "file", content |-> ...].                 *)
(***************************************************************************)
Strings(alphabet, n) == UNION {[1..k -> alphabet] : k \in 0..n}

\* sub in s, for strings
Contains(s, sub) ==
    \E i \in 0..(Len(s) - Len(sub)) : SubSeq(s, i + 1, i + Len(sub)) = sub

\* the orders in which the entries of directory dir may be listed
Orderings(dir) ==
    {l \in [1..Cardinality(DOMAIN dir) -> DOMAIN dir] :
        \A i, j \in DOMAIN l : i # j => l[i] # l[j]}

\* as all_folders without the is_dir() test
all_entries(dir, listing) == listing

\* line 24
all_folders(dir, listing) ==
    LET is_dir(x) == dir[x].kind = "dir"
    IN  SelectSeq(listing, is_dir)

\* line 25
folders_with_str(folders, search_str) ==
    LET matches(x) == Contains(x, search_str)
    IN  SelectSeq(folders, matches)

get_unique_folder_in_dir ==
    /\ pc = "call"
    /\ op = "get_unique_folder_in_dir"
    /\ \E listing \in Orderings(fs) :
       \E folders \in {all_folders(fs, listing)} :
       \E matching \in {folders_with_str(folders, args.search_str)} :
          /\ locals' = [all_folders |-> folders, folders_with_str |-> matching]
          /\ ret' = IF Len(matching) = 0
                    THEN [exception |-> "ValueError", message |-> "No folders"]
                    ELSE IF Len(matching) > 1
                    THEN [exception |-> "ValueError", message |-> "Multiple folders"]
                    ELSE [parent |-> args.search_dir, name |-> matching[1]]
    /\ pc' = "done"
    /\ UNCHANGED <<op, args, fs>>

\* pathlib's Path.suffix, of the final component of a path: from the last
\* dot on, unless that dot is the first or the last character
LastDot(name) ==
    IF \E i \in 1..Len(name) : name[i] = "."
    THEN CHOOSE i \in 1..Len(name) :
             name[i] = "." /\ \A j \in (i + 1)..Len(name) : name[j] # "."
    ELSE 0

\* as Suffix, but from the first dot on
SuffixFromFirstDot(name) ==
    IF \E i \in 2..(Len(name) - 1) : name[i] = "."
    THEN SubSeq(name,
                CHOOSE i \in 2..(Len(name) - 1) :
                    name[i] = "." /\ \A j \in 2..(i - 1) : name[j] # ".",
                Len(name))
    ELSE <<>>

Suffix(name) ==
    IF 1 < LastDot(name) /\ LastDot(name) < Len(name)
    THEN SubSeq(name, LastDot(name), Len(name))
    ELSE <<>>

DigitChars == <<"0", "1", "2", "3", "4", "5", "6", "7", "8", "9">>

\* str(n), for a natural number
RECURSIVE Decimal(_)
Decimal(n) ==
    IF n < 10 THEN <<DigitChars[n + 1]>>
    ELSE Decimal(n \div 10) \o <<DigitChars[(n % 10) + 1]>>

\* line 71: pd.DataFrame(points, columns=["z", "y", "x"])
DataFrame(points) == [columns |-> <<"z", "y", "x">>, rows |-> points.data]

\* line 72: DataFrame.to_csv(index=False): the line of column names, then one
\* line per row; a line is the sequence of its fields
to_csv(frame) ==
    <<[j \in 1..3 |-> <<frame.columns[j]>>]>>
        \o [i \in 1..Len(frame.rows) |-> [j \in 1..3 |-> Decimal(frame.rows[i][j])]]

WriteFile(dir, name, content) ==
    [n \in DOMAIN dir \cup {name} |->
        IF n = name THEN [kind |-> "file", content |-> content] ELSE dir[n]]

save_3d_points_to_csv ==
    /\ pc = "call"
    /\ op = "save_3d_points_to_csv"
    /\ IF args.points.shape[2] # 3
       THEN /\ ret' = [exception |-> "ValueError", message |-> "Points must be of shape (n, 3)"]
            /\ UNCHANGED fs
       ELSE IF Suffix(args.file_path.name) # <<".", "c", "s", "v">>
       THEN /\ ret' = [exception |-> "ValueError", message |-> "File extension is not valid"]
            /\ UNCHANGED fs
       ELSE /\ fs' = WriteFile(fs, args.file_path.name, to_csv(DataFrame(args.points)))
            /\ ret' = None
    /\ pc' = "done"
    /\ UNCHANGED <<op, args, locals>>

(***************************************************************************)
(* Arguments of get_unique_folder_in_dir: a directory of at most           *)
(* MaxEntries entries, sub-directories and files, and a search string,     *)
(* the empty one included.                                                 *)
(***************************************************************************)
EntryNames(len) == Strings({"a", "b"}, len) \ {<<>>}

SearchedDirs(entries, len) ==
    UNION { [names -> {[kind |-> "dir"], [kind |-> "file", content |-> <<>>]}] :
              names \in {N \in SUBSET EntryNames(len) : Cardinality(N) <= entries} }

(***************************************************************************)
(* Arguments of save_3d_points_to_csv: an array of at most MaxRows rows of *)
(* 2, 3 or 4 columns, and a file name in a directory that is empty or has  *)
(* a file written earlier.                                                 *)
(***************************************************************************)
FileNames ==
    { <<"p", ".", "c", "s", "v">>, <<"p", ".", "t", "x", "t">>, <<"p">>,
      <<".", "c", "s", "v">>, <<"p", ".", "C", "S", "V">>, <<"p", "c", "s", "v">>,
      <<"p", ".", "c", "s", "v", ".">>,
      <<"p", ".", "c", "s", "v", ".", "t", "x", "t">>,
      <<"p", ".", "t", "x", "t", ".", "c", "s", "v">> }

PointRows(columns) == { [j \in 1..columns |-> first + 2 * j] : first \in {0, 7} }

PointArrays(max) ==
    UNION { { [shape |-> <<n, columns>>, data |-> rows] :
                rows \in [1..n -> PointRows(columns)] } :
            n \in 0..max, columns \in 2..4 }

EarlierFile == [kind |-> "file", content |-> <<<< <<"o">>, <<"l">>, <<"d">> >>>>]

SavedDirs == {<<>>} \cup { [n \in {name} |-> EarlierFile] : name \in FileNames }

InitIO ==
    /\ pc = "call"
    /\ locals = NoLocals
    /\ ret = None
    /\ \/ /\ op = "get_unique_folder_in_dir"
          /\ fs \in SearchedDirs(MaxEntries, MaxNameLen)
          /\ args \in { [search_dir |-> <<"d">>, search_str |-> str] :
                          str \in Strings({"a", "b"}, MaxNameLen) }
       \/ /\ op = "save_3d_points_to_csv"
          /\ fs \in SavedDirs
          /\ args \in { [points |-> points,
                         file_path |-> [parent |-> <<"d">>, name |-> name]] :
                          points \in PointArrays(MaxRows), name \in FileNames }

NextIO == get_unique_folder_in_dir \/ save_3d_points_to_csv

SpecIO == InitIO /\ [][NextIO]_vars

FolderDone == pc = "done" /\ op = "get_unique_folder_in_dir"

\* the sub-directories of the searched directory whose name contains search_str
MatchingFolders ==
    {n \in DOMAIN fs : fs[n].kind = "dir" /\ Contains(n, args.search_str)}

\* C9: in an existing directory, get_unique_folder_in_dir returns a path iff
\* exactly one sub-directory has a name containing search_str, and then that
\* sub-directory; it raises ValueError when none or several match; no entry
\* that is not a directory is counted or returned
C9_UniqueFolderOrValueError ==
    FolderDone =>
        /\ ("name" \in DOMAIN ret) <=> (Cardinality(MatchingFolders) = 1)
        /\ ("name" \in DOMAIN ret) =>
               /\ MatchingFolders = {ret.name}
               /\ ret.parent = args.search_dir
               /\ fs[ret.name].kind = "dir"
        /\ (Cardinality(MatchingFolders) # 1) =>
               ("exception" \in DOMAIN ret /\ ret.exception = "ValueError")

\* a directory returned although a file, too, has a name containing search_str
C9_Witness ==
    /\ FolderDone
    /\ "name" \in DOMAIN ret
    /\ args.search_str # <<>>
    /\ \E n \in DOMAIN fs : fs[n].kind = "file" /\ Contains(n, args.search_str)

\* the final component ends in ".csv" and has a character before it
EndsInDotCsv(name) ==
    /\ Len(name) > 4
    /\ SubSeq(name, Len(name) - 3, Len(name)) = <<".", "c", "s", "v">>

DigitValue(c) == CHOOSE d \in 0..9 : DigitChars[d + 1] = c

\* the natural number that a string of digits denotes
RECURSIVE Denoted(_)
Denoted(str) ==
    IF str = <<>> THEN 0
    ELSE 10 * Denoted(SubSeq(str, 1, Len(str) - 1)) + DigitValue(str[Len(str)])

SaveStep == pc = "call" /\ op = "save_3d_points_to_csv" /\ pc' = "done"

SaveValid == args.points.shape[2] = 3 /\ EndsInDotCsv(args.file_path.name)

\* the content of the file written: the columns z, y, x, then the points
WrittenInOrder(content, points) ==
    /\ Len(content) = points.shape[1] + 1
    /\ content[1] = << <<"z">>, <<"y">>, <<"x">> >>
    /\ \A i \in 1..points.shape[1] :
           /\ Len(content[i + 1]) = 3
           /\ \A j \in 1..3 : Denoted(content[i + 1][j]) = points.data[i][j]

\* C10: a call with an array that has not exactly 3 columns, or with a path
\* whose suffix is not exactly ".csv", raises ValueError and leaves the file
\* system as it was; any other call writes, at the path, one row per point in
\* the order of the input, under the columns z, y, x
C10_SaveStep ==
    SaveStep =>
        IF SaveValid
        THEN /\ "exception" \notin DOMAIN ret'
             /\ DOMAIN fs' = DOMAIN fs \cup {args.file_path.name}
             /\ \A n \in DOMAIN fs : n # args.file_path.name => fs'[n] = fs[n]
             /\ fs'[args.file_path.name].kind = "file"
             /\ WrittenInOrder(fs'[args.file_path.name].content, args.points)
        ELSE /\ "exception" \in DOMAIN ret'
             /\ ret'.exception = "ValueError"
             /\ fs' = fs

C10_WritesOnlyValidInput == [][C10_SaveStep]_vars

SaveDone == pc = "done" /\ op = "save_3d_points_to_csv"

\* two different points written, in a file whose name has two dots
C10_Witness ==
    /\ SaveDone
    /\ ret = None
    /\ args.points.shape[1] = 2
    /\ args.points.data[1] # args.points.data[2]
    /\ args.file_path.name # <<"p", ".", "c", "s", "v">>
    /\ args.file_path.name \in DOMAIN fs
    /\ Len(fs[args.file_path.name].content) = 3

=============================================================================
